---- MODULE Spec2Model ----
(***************************************************************************)
(* Tic-tac-toe search core: src/src/main.py (class TicTacToe with plain    *)
(* minimax, alpha-beta minimax and flat Monte-Carlo rollouts, and the      *)
(* experiment driver run_experiment) and src/monteCarlo.py (the            *)
(* stand-alone rollout player, whose make_move/undo_move also flip         *)
(* current_player).                                                        *)
(*                                                                         *)
(* A board is a function 0..8 -> {" ", "X", "O"}, row-major: the Python    *)
(* list self.board.  -float('inf') and float('inf') are NegInf and PosInf, *)
(* integers outside the range of utility() and heuristic().                *)
(***************************************************************************)
EXTENDS Integers, Sequences, FiniteSets, TLC

(***************************************************************************)
(* Bounds of the model.                                                    *)
(***************************************************************************)
\* searches probed outside a trial start from boards with at most this
\* many empty cells
MaxEmpty == 5
\* the largest number of simulations per move given to mcts
MaxSims == 1

(***************************************************************************)
(* Program constants.                                                      *)
(***************************************************************************)
\* the depth limits of the variants table of main.py
VariantDepthA == 4
VariantDepthB == 6
\* number of cells of the board: no search goes deeper
FullDepth == 9
\* -float('inf') and float('inf'): |heuristic()| <= 24 and |utility()| <= 1
NegInf == -100
PosInf == 100

Cells == 0 .. 8
CellSeq == <<0, 1, 2, 3, 4, 5, 6, 7, 8>>
Players == {"X", "O"}
\* the default argument player=None of make_move
None == "None"
EmptyBoard == [i \in Cells |-> " "]

WIN_LINES ==
  << <<0,1,2>>, <<3,4,5>>, <<6,7,8>>,
     <<0,3,6>>, <<1,4,7>>, <<2,5,8>>,
     <<0,4,8>>, <<2,4,6>> >>

Max(a, b) == IF a >= b THEN a ELSE b
Min(a, b) == IF a <= b THEN a ELSE b
Range(s) == {s[i] : i \in 1 .. Len(s)}

Other(p) == IF p = "X" THEN "O" ELSE "X"

\* [i for i, c in enumerate(self.board) if c == ' ']: ascending indices
available_moves(b) == SelectSeq(CellSeq, LAMBDA i : b[i] = " ")

\* any(board[a] == board[b] == board[c] == player for a,b,c in WIN_LINES),
\* written out over the eight lines of WIN_LINES in their order
is_winner(b, player) ==
  \/ b[0] = player /\ b[1] = player /\ b[2] = player
  \/ b[3] = player /\ b[4] = player /\ b[5] = player
  \/ b[6] = player /\ b[7] = player /\ b[8] = player
  \/ b[0] = player /\ b[3] = player /\ b[6] = player
  \/ b[1] = player /\ b[4] = player /\ b[7] = player
  \/ b[2] = player /\ b[5] = player /\ b[8] = player
  \/ b[0] = player /\ b[4] = player /\ b[8] = player
  \/ b[2] = player /\ b[4] = player /\ b[6] = player

is_draw(b) ==
  /\ \A i \in Cells : b[i] # " "
  /\ ~ is_winner(b, "X")
  /\ ~ is_winner(b, "O")

\* is_terminal without the test for a line of O
is_terminal_blind_to_O(b) == is_winner(b, "X") \/ is_draw(b)

is_terminal(b) == is_winner(b, "X") \/ is_winner(b, "O") \/ is_draw(b)

\* utility with a lost game scored as a draw
utility_loss_as_draw(b) == IF is_winner(b, "X") THEN 1 ELSE 0

utility(b) ==
  IF is_winner(b, "X") THEN 1
  ELSE IF is_winner(b, "O") THEN -1
  ELSE 0

\* line.count(s) for line = [board[a], board[b], board[c]]
LineCount(b, l, s) ==
  (IF b[l[1]] = s THEN 1 ELSE 0) + (IF b[l[2]] = s THEN 1 ELSE 0)
  + (IF b[l[3]] = s THEN 1 ELSE 0)

\* the contribution of one line to heuristic()
LineScore(b, l) ==
  (IF LineCount(b, l, "O") = 0 THEN LineCount(b, l, "X") ELSE 0)
  - (IF LineCount(b, l, "X") = 0 THEN LineCount(b, l, "O") ELSE 0)

heuristic(b) ==
  LineScore(b, WIN_LINES[1]) + LineScore(b, WIN_LINES[2])
  + LineScore(b, WIN_LINES[3]) + LineScore(b, WIN_LINES[4])
  + LineScore(b, WIN_LINES[5]) + LineScore(b, WIN_LINES[6])
  + LineScore(b, WIN_LINES[7]) + LineScore(b, WIN_LINES[8])

(***************************************************************************)
(* make_move / undo_move of main.py: the cell is written whatever it       *)
(* holds, and current_player (cp) is read but never assigned.              *)
(***************************************************************************)
make_move(b, cp, move, player) ==
  [b EXCEPT ![move] = IF player # None THEN player ELSE cp]

\* undo_move that leaves the cell as it is
undo_move_keeps_cell(b, move) == b

undo_move(b, move) == [b EXCEPT ![move] = " "]

\* clone(): a copy of the board (current_player is copied by the caller)
clone(b) == [i \in Cells |-> b[i]]

(***************************************************************************)
(* make_move / undo_move of monteCarlo.py: both also flip current_player.  *)
(***************************************************************************)
mc_make_move(b, cp, move) ==
  [board |-> [b EXCEPT ![move] = cp], current_player |-> Other(cp)]

\* undo_move of monteCarlo.py without the flip of current_player
mc_undo_move_no_flip(b, cp, move) ==
  [board |-> [b EXCEPT ![move] = " "], current_player |-> cp]

mc_undo_move(b, cp, move) ==
  [board |-> [b EXCEPT ![move] = " "], current_player |-> Other(cp)]

(***************************************************************************)
(* The four outcome classes of a board - X has a line, O has a line, draw, *)
(* in progress (not is_terminal) - and how many of them hold.              *)
(***************************************************************************)
B2N(p) == IF p THEN 1 ELSE 0

ExactlyOne(b) ==
  B2N(is_winner(b, "X")) + B2N(is_winner(b, "O")) + B2N(is_draw(b))
  + B2N(~ is_terminal(b)) = 1

\* the same for a board a search call was entered with, given the value t
\* the call got from is_terminal(): a board with t false is in progress and,
\* t being the disjunction of the three other classes, in none of them
ExactlyOneT(b, t) ==
  t => B2N(is_winner(b, "X")) + B2N(is_winner(b, "O")) + B2N(is_draw(b)) = 1

(***************************************************************************)
(* _minimax.  The Python method mutates self.board in place, so the model  *)
(* threads the board through the recursion: a call returns the value, the  *)
(* move and the board it leaves behind.  History fields ride along:        *)
(*   restored   - this call and every call below it returned with the      *)
(*                board equal to the board it was entered with;            *)
(*   visited_ok - every board this call and the calls below it were        *)
(*                entered with falls in exactly one outcome class;         *)
(*   nodes      - the number of calls made, this one included;             *)
(*   cut        - some call returned heuristic(): its depth limit was 0    *)
(*                on a board that is not terminal.                         *)
(* The for loop runs over the list available_moves() computed once, on     *)
(* entry to the loop; i is the 1-based position of the loop in that list.  *)
(***************************************************************************)
\* return (self.utility() if self.is_terminal() else self.heuristic(), -1)
Leaf(b, t) ==
  [val |-> IF t THEN utility(b) ELSE heuristic(b), mv |-> -1, board |-> b,
   restored |-> TRUE, visited_ok |-> ExactlyOneT(b, t), nodes |-> 1,
   cut |-> ~ t]

\* both branches placing 'X'
Mover_always_X(maximizing) == "X"

\* the symbol a branch places: 'X' when maximizing, 'O' otherwise
Mover(maximizing) == IF maximizing THEN "X" ELSE "O"

\* best_val = -float('inf') when maximizing, float('inf') otherwise
WorstVal(maximizing) == IF maximizing THEN NegInf ELSE PosInf

\* val > best_val when maximizing, val < best_val otherwise
Better(val, best_val, maximizing) ==
  IF maximizing THEN val > best_val ELSE val < best_val

RECURSIVE _minimax(_, _, _, _), MinimaxLoop(_, _, _, _, _)

\* one iteration of the for loop of _minimax
MinimaxIter(s, cp, depth, maximizing, mv) ==
  LET b1 == make_move(s.board, cp, mv, Mover(maximizing))
      r == _minimax(b1, cp, depth - 1, ~ maximizing)
      better == Better(r.val, s.val, maximizing)
  IN [i |-> s.i + 1,
      val |-> IF better THEN r.val ELSE s.val,
      mv |-> IF better THEN mv ELSE s.mv,
      board |-> undo_move(r.board, mv),
      restored |-> s.restored /\ r.restored /\ r.board = b1,
      visited_ok |-> s.visited_ok /\ r.visited_ok,
      nodes |-> s.nodes + r.nodes, cut |-> s.cut \/ r.cut]

\* for mv in moves: ...
MinimaxLoop(s, cp, depth, maximizing, moves) ==
  IF s.i > Len(moves) THEN s
  ELSE MinimaxLoop(MinimaxIter(s, cp, depth, maximizing, moves[s.i]),
                   cp, depth, maximizing, moves)

_minimax(b, cp, depth, maximizing) ==
  LET t == is_terminal(b)
  IN IF t \/ depth = 0 THEN Leaf(b, t)
     ELSE LET s == MinimaxLoop(
                     [i |-> 1, val |-> WorstVal(maximizing), mv |-> -1,
                      board |-> b, restored |-> TRUE,
                      visited_ok |-> ExactlyOneT(b, t), nodes |-> 1,
                      cut |-> FALSE],
                     cp, depth, maximizing, available_moves(b))
          IN [val |-> s.val, mv |-> s.mv, board |-> s.board,
              restored |-> s.restored /\ s.board = b,
              visited_ok |-> s.visited_ok, nodes |-> s.nodes,
              cut |-> s.cut]

(***************************************************************************)
(* _minimax_ab: the same loop with the window [alpha, beta] carried in the *)
(* loop state; stop is the break taken as soon as beta <= alpha.           *)
(***************************************************************************)
\* a break taken while the window still holds two values
Prune_early(alpha, beta) == beta <= alpha + 2

\* if beta <= alpha: break
Prune(alpha, beta) == beta <= alpha

RECURSIVE _minimax_ab(_, _, _, _, _, _), AbLoop(_, _, _, _, _)

\* one iteration of the for loop of _minimax_ab
AbIter(s, cp, depth, maximizing, mv) ==
  LET b1 == make_move(s.board, cp, mv, Mover(maximizing))
      r == _minimax_ab(b1, cp, depth - 1, s.alpha, s.beta, ~ maximizing)
      better == Better(r.val, s.val, maximizing)
      bv == IF better THEN r.val ELSE s.val
      a2 == IF maximizing THEN Max(s.alpha, bv) ELSE s.alpha
      be2 == IF maximizing THEN s.beta ELSE Min(s.beta, bv)
  IN [i |-> s.i + 1,
      val |-> bv,
      mv |-> IF better THEN mv ELSE s.mv,
      board |-> undo_move(r.board, mv),
      restored |-> s.restored /\ r.restored /\ r.board = b1,
      visited_ok |-> s.visited_ok /\ r.visited_ok,
      nodes |-> s.nodes + r.nodes, cut |-> s.cut \/ r.cut,
      alpha |-> a2, beta |-> be2, stop |-> Prune(a2, be2)]

\* for mv in moves: ... if beta <= alpha: break
AbLoop(s, cp, depth, maximizing, moves) ==
  IF s.stop \/ s.i > Len(moves) THEN s
  ELSE AbLoop(AbIter(s, cp, depth, maximizing, moves[s.i]),
              cp, depth, maximizing, moves)

_minimax_ab(b, cp, depth, alpha, beta, maximizing) ==
  LET t == is_terminal(b)
  IN IF t \/ depth = 0 THEN Leaf(b, t)
     ELSE LET s == AbLoop(
                     [i |-> 1, val |-> WorstVal(maximizing), mv |-> -1,
                      board |-> b, restored |-> TRUE,
                      visited_ok |-> ExactlyOneT(b, t), nodes |-> 1,
                      cut |-> FALSE, alpha |-> alpha, beta |-> beta,
                      stop |-> FALSE],
                     cp, depth, maximizing, available_moves(b))
          IN [val |-> s.val, mv |-> s.mv, board |-> s.board,
              restored |-> s.restored /\ s.board = b,
              visited_ok |-> s.visited_ok, nodes |-> s.nodes,
              cut |-> s.cut]

(***************************************************************************)
(* get_best_plain / get_best_ab: the root search, then                     *)
(*   return mv if mv != -1 else random.choice(self.available_moves())      *)
(* choices is the set of values the return can take; it is empty exactly   *)
(* when random.choice is given the empty list and raises IndexError.       *)
(***************************************************************************)
BestChoices(r) ==
  IF r.mv # -1 THEN {r.mv} ELSE Range(available_moves(r.board))

get_best_plain(b, cp, depth) ==
  LET r == _minimax(b, cp, depth, TRUE)
  IN [res |-> r, choices |-> BestChoices(r)]

get_best_ab(b, cp, depth) ==
  LET r == _minimax_ab(b, cp, depth, NegInf, PosInf, TRUE)
  IN [res |-> r, choices |-> BestChoices(r)]

(***************************************************************************)
(* State.                                                                  *)
(***************************************************************************)
VARIABLES
  impl,            \* which class the game object is: "main" or "mc"
  board,           \* game.board
  current_player,  \* game.current_player
  turn,            \* the symbol the caller places next (alternating play)
  pc,              \* where the program is
  algo, param, starter,   \* the arguments of run_experiment
  outcome,         \* the tally the finished trial adds to
  res,             \* what the last root call of _minimax did
  res_ab,          \* what the last root call of _minimax_ab did
  ret,             \* the move index last returned to the caller
  m_moves,         \* mcts: moves
  m_i,             \* mcts: 1-based position of the outer loop in moves
  m_s,             \* mcts: simulations finished for moves[m_i]
  wins, plays,     \* mcts: stats[mv]['wins'], stats[mv]['plays']
  sim,             \* mcts: sim.board
  sim_player,      \* mcts: sim.current_player
  placed,          \* the symbols make_move placed in the running rollout
  o_minimax,       \* every move of O so far is the move _minimax(param, False) picks
  pre              \* the object as it was when make_move was last probed

vars == <<impl, board, current_player, turn, pc, algo, param, starter,
          outcome, res, res_ab, ret, m_moves, m_i, m_s, wins, plays, sim,
          sim_player, placed, o_minimax, pre>>

gameVars == <<impl, board, current_player, turn>>
cfgVars == <<algo, param, starter>>
searchVars == <<res, res_ab>>
mctsVars == <<m_moves, m_i, m_s, wins, plays, sim, sim_player, placed>>

Algos == {"plain", "ab", "mcts"}
\* depth limits of a trial: the two of the variants table, and FullDepth for
\* the limits >= 9.  Under the limit 9 the test depth == 0 holds only where
\* is_terminal() does (the field cut), and under a larger limit it never
\* holds, so the limits above 9 run as 9
TrialDepths == {VariantDepthA, VariantDepthB, FullDepth}
SimCounts == 1 .. MaxSims
\* depth limits of a probed search
SearchDepths == 0 .. MaxEmpty

\* the depth limits tried on board b with k empty cells: 0 .. k.  Under the
\* limit k the test depth == 0 holds only where is_terminal() does (the
\* field cut), and under a larger limit it never holds, so the limits
\* above k run as k
DepthsFor(b) == {d \in SearchDepths : d <= Len(available_moves(b))}

NoRes ==
  [entry |-> EmptyBoard, depth |-> -1, maximizing |-> FALSE, val |-> 0,
   mv |-> -1, board |-> EmptyBoard, restored |-> TRUE, visited_ok |-> TRUE,
   nodes |-> 0, cut |-> FALSE]

NoPre ==
  [board |-> EmptyBoard, current_player |-> "X", move |-> -1]

\* the record kept of a root call entered with board b
Rooted(r, b, depth, maximizing) ==
  [entry |-> b, depth |-> depth, maximizing |-> maximizing, val |-> r.val,
   mv |-> r.mv, board |-> r.board, restored |-> r.restored,
   visited_ok |-> r.visited_ok, nodes |-> r.nodes, cut |-> r.cut]

InitCommon ==
  /\ board = EmptyBoard
  /\ current_player = "X"
  /\ outcome = "none"
  /\ res = NoRes
  /\ res_ab = NoRes
  /\ ret = -1
  /\ m_moves = << >>
  /\ m_i = 0
  /\ m_s = 0
  /\ wins = << >>
  /\ plays = << >>
  /\ sim = EmptyBoard
  /\ sim_player = "X"
  /\ placed = << >>
  /\ o_minimax = TRUE
  /\ pre = NoPre

(***************************************************************************)
(* run_experiment (main.py): one trial.                                    *)
(***************************************************************************)
Init ==
  /\ impl = "main"
  /\ turn = "X"
  /\ pc = "start"
  /\ algo \in Algos
  /\ param \in (IF algo = "mcts" THEN SimCounts ELSE TrialDepths)
  /\ starter \in Players
  /\ InitCommon

\* if starter == 'O': game.make_move(random.choice(game.available_moves()), 'O')
StartO ==
  /\ pc = "start"
  /\ starter = "O"
  /\ \E m \in Range(available_moves(board)) :
        board' = make_move(board, current_player, m, "O")
  /\ pc' = "loop"
  /\ UNCHANGED <<impl, current_player, turn, cfgVars, outcome, searchVars,
                 ret, mctsVars, o_minimax, pre>>

StartX ==
  /\ pc = "start"
  /\ starter = "X"
  /\ pc' = "loop"
  /\ UNCHANGED <<gameVars, cfgVars, outcome, searchVars, ret, mctsVars,
                 o_minimax, pre>>

\* while not game.is_terminal() fails: the result is tallied
LoopExit ==
  /\ pc = "loop"
  /\ is_terminal(board)
  /\ outcome' = IF is_winner(board, "X") THEN "win"
                ELSE IF is_winner(board, "O") THEN "loss" ELSE "draw"
  /\ pc' = "done"
  /\ UNCHANGED <<gameVars, cfgVars, searchVars, ret, mctsVars, o_minimax, pre>>

\* what a call of get_best_plain / get_best_ab leaves: the board the search
\* left, the record of the root call, and the move returned or the error
Returned(g, rooted) ==
  /\ board' = g.res.board
  /\ IF g.choices = {}
       THEN ret' = -1 /\ pc' = "raised"
       ELSE ret' \in g.choices /\ pc' = "got_move"
  /\ rooted

\* mv = game.get_best_plain(param)
XSearchPlain ==
  /\ pc = "loop"
  /\ ~ is_terminal(board)
  /\ algo = "plain"
  /\ \E g \in {get_best_plain(board, current_player, param)} :
        Returned(g, res' = Rooted(g.res, board, param, TRUE))
  /\ UNCHANGED <<impl, current_player, turn, cfgVars, outcome, res_ab,
                 mctsVars, o_minimax, pre>>

\* mv = game.get_best_ab(param)
XSearchAb ==
  /\ pc = "loop"
  /\ ~ is_terminal(board)
  /\ algo = "ab"
  /\ \E g \in {get_best_ab(board, current_player, param)} :
        Returned(g, res_ab' = Rooted(g.res, board, param, TRUE))
  /\ UNCHANGED <<impl, current_player, turn, cfgVars, outcome, res,
                 mctsVars, o_minimax, pre>>

\* game.make_move(mv, 'X') after a minimax search, game.make_move(mv) after mcts
XMove ==
  /\ pc = "got_move"
  /\ board' = make_move(board, current_player, ret,
                        IF algo = "mcts" THEN None ELSE "X")
  /\ pc' = "o_turn"
  /\ UNCHANGED <<impl, current_player, turn, cfgVars, outcome, searchVars,
                 ret, mctsVars, o_minimax, pre>>

\* if not game.is_terminal(): game.make_move(random.choice(...), 'O')
OTurn ==
  /\ pc = "o_turn"
  /\ ~ is_terminal(board)
  /\ \E perfect \in {IF o_minimax /\ algo = "plain"
                         THEN _minimax(board, current_player, param, FALSE).mv
                         ELSE -1} :
        \E omv \in Range(available_moves(board)) :
           /\ board' = make_move(board, current_player, omv, "O")
           /\ o_minimax' = (o_minimax /\ algo = "plain" /\ omv = perfect)
  /\ pc' = "loop"
  /\ UNCHANGED <<impl, current_player, turn, cfgVars, outcome, searchVars,
                 ret, mctsVars, pre>>

OSkip ==
  /\ pc = "o_turn"
  /\ is_terminal(board)
  /\ pc' = "loop"
  /\ UNCHANGED <<gameVars, cfgVars, outcome, searchVars, ret, mctsVars,
                 o_minimax, pre>>

(***************************************************************************)
(* mcts and simulate_random_game (main.py), one step per make_move.        *)
(***************************************************************************)
\* moves = game.available_moves(); stats = {mv: {'wins':0,'plays':0} ...}
MctsBegin ==
  /\ m_moves' = available_moves(board)
  /\ wins' = [m \in Range(available_moves(board)) |-> 0]
  /\ plays' = [m \in Range(available_moves(board)) |-> 0]
  /\ m_i' = 1
  /\ m_s' = 0
  /\ pc' = "mcts"

\* mv = mcts(game, simulations=param), called by the trial
MctsEnter ==
  /\ pc = "loop"
  /\ ~ is_terminal(board)
  /\ algo = "mcts"
  /\ MctsBegin
  /\ UNCHANGED <<gameVars, cfgVars, outcome, searchVars, ret, sim,
                 sim_player, placed, o_minimax, pre>>

\* sim = game.clone(); sim.make_move(mv)
RolloutStart ==
  /\ pc = "mcts"
  /\ m_i <= Len(m_moves)
  /\ sim' = make_move(clone(board), current_player, m_moves[m_i], None)
  /\ sim_player' = current_player
  /\ placed' = <<current_player>>
  /\ pc' = "rollout"
  /\ UNCHANGED <<gameVars, cfgVars, outcome, searchVars, ret, m_moves, m_i,
                 m_s, wins, plays, o_minimax, pre>>

\* while not game.is_terminal(): game.make_move(random.choice(...))
RolloutStep ==
  /\ pc = "rollout"
  /\ ~ is_terminal(sim)
  /\ \E mv \in Range(available_moves(sim)) :
        sim' = make_move(sim, sim_player, mv, None)
  /\ placed' = Append(placed, sim_player)
  /\ UNCHANGED <<gameVars, pc, cfgVars, outcome, searchVars, ret, m_moves,
                 m_i, m_s, wins, plays, sim_player, o_minimax, pre>>

\* the value simulate_random_game returns
RolloutResult(b) ==
  IF is_winner(b, "X") THEN 1 ELSE IF is_winner(b, "O") THEN -1 ELSE 0

\* stats[mv]['plays'] += 1; stats[mv]['wins'] += result; next simulation
RolloutEnd ==
  /\ pc = "rollout"
  /\ is_terminal(sim)
  /\ plays' = [plays EXCEPT ![m_moves[m_i]] = @ + 1]
  /\ wins' = [wins EXCEPT ![m_moves[m_i]] = @ + RolloutResult(sim)]
  /\ IF m_s + 1 < param
       THEN m_s' = m_s + 1 /\ m_i' = m_i
       ELSE m_s' = 0 /\ m_i' = m_i + 1
  /\ sim' = EmptyBoard
  /\ placed' = << >>
  /\ pc' = "mcts"
  /\ UNCHANGED <<gameVars, cfgVars, outcome, searchVars, ret, m_moves,
                 sim_player, o_minimax, pre>>

\* stats[a]['wins']/stats[a]['plays'] > stats[b]['wins']/stats[b]['plays'],
\* both play counts positive
RatioGreater(a, b) == wins[a] * plays[b] > wins[b] * plays[a]

\* max(moves, key=ratio): the first move of the list no other move beats
ArgMax(moves) ==
  LET k == CHOOSE k \in 1 .. Len(moves) :
              /\ \A j \in 1 .. Len(moves) : ~ RatioGreater(moves[j], moves[k])
              /\ \A j \in 1 .. k - 1 : RatioGreater(moves[k], moves[j])
  IN moves[k]

\* return max(moves, key=...): max() of an empty list raises ValueError
MctsReturn ==
  /\ pc = "mcts"
  /\ m_i > Len(m_moves)
  /\ IF m_moves = << >>
       THEN ret' = -1 /\ pc' = "raised"
       ELSE ret' = ArgMax(m_moves) /\ pc' = "got_move"
  /\ UNCHANGED <<gameVars, cfgVars, outcome, searchVars, mctsVars,
                 o_minimax, pre>>

Next ==
  \/ StartO \/ StartX \/ LoopExit
  \/ XSearchPlain \/ XSearchAb \/ XMove \/ OTurn \/ OSkip
  \/ MctsEnter \/ RolloutStart \/ RolloutStep \/ RolloutEnd \/ MctsReturn

Spec == Init /\ [][Next]_vars

(***************************************************************************)
(* A game object in the hands of a caller: alternating legal play, and at  *)
(* any point one probe of the interface - both searches on the same board, *)
(* make_move on any cell followed by undo_move, or a request for a move    *)
(* once the game is over.                                                  *)
(***************************************************************************)
InitApi ==
  /\ impl \in {"main", "mc"}
  /\ turn \in (IF impl = "main" THEN Players ELSE {"X"})
  /\ pc = "api"
  /\ algo = "none"
  /\ param = 0
  /\ starter = turn
  /\ InitCommon

\* the next legal move of an alternating game: make_move(m, symbol) on
\* main.py's object, make_move(m) on monteCarlo.py's
ApiPlay ==
  /\ pc = "api"
  /\ ~ is_terminal(board)
  /\ \E m \in Range(available_moves(board)) :
        IF impl = "main"
          THEN /\ board' = make_move(board, current_player, m, turn)
               /\ current_player' = current_player
               /\ turn' = Other(turn)
          ELSE /\ board' = mc_make_move(board, current_player, m).board
               /\ current_player' = Other(current_player)
               /\ turn' = Other(current_player)
  /\ UNCHANGED <<impl, pc, cfgVars, outcome, searchVars, ret, mctsVars,
                 o_minimax, pre>>

\* make_move(m, p) on any cell m, free or not; p = None is the own-turn form
ApiMakeMove ==
  /\ pc = "api"
  /\ \E m \in Cells :
     \E p \in (IF impl = "main" THEN {None, "X", "O"} ELSE {None}) :
        /\ pre' = [board |-> board, current_player |-> current_player,
                   move |-> m]
        /\ IF impl = "main"
             THEN /\ board' = make_move(board, current_player, m, p)
                  /\ current_player' = current_player
             ELSE /\ board' = mc_make_move(board, current_player, m).board
                  /\ current_player' =
                       mc_make_move(board, current_player, m).current_player
  /\ pc' = "made"
  /\ UNCHANGED <<impl, turn, cfgVars, outcome, searchVars, ret, mctsVars,
                 o_minimax>>

\* undo_move(m) of the move just made, when it was made on a free cell
ApiUndoMove ==
  /\ pc = "made"
  /\ pre.board[pre.move] = " "
  /\ IF impl = "main"
       THEN /\ board' = undo_move(board, pre.move)
            /\ current_player' = current_player
       ELSE /\ board' = mc_undo_move(board, current_player, pre.move).board
            /\ current_player' =
                 mc_undo_move(board, current_player, pre.move).current_player
  /\ pc' = "undone"
  /\ UNCHANGED <<impl, turn, cfgVars, outcome, searchVars, ret, mctsVars,
                 o_minimax, pre>>

\* _minimax(d, maximizing) and then _minimax_ab(d, -inf, inf, maximizing) on
\* the same object, maximizing when X is to move
ApiSearch ==
  /\ pc = "api"
  /\ impl = "main"
  /\ Len(available_moves(board)) <= MaxEmpty
  /\ \E d \in DepthsFor(board) :
     \E r1 \in {_minimax(board, current_player, d, turn = "X")} :
     \E r2 \in {_minimax_ab(r1.board, current_player, d, NegInf, PosInf,
                            turn = "X")} :
        /\ res' = Rooted(r1, board, d, turn = "X")
        /\ res_ab' = Rooted(r2, r1.board, d, turn = "X")
        /\ board' = r2.board
  /\ pc' = "searched"
  /\ UNCHANGED <<impl, current_player, turn, cfgVars, outcome, ret, mctsVars,
                 o_minimax, pre>>

\* get_best_plain(d) asked of a finished game
ApiGetBestPlain ==
  /\ pc = "api"
  /\ impl = "main"
  /\ is_terminal(board)
  /\ \E d \in SearchDepths :
     \E g \in {get_best_plain(board, current_player, d)} :
        Returned(g, res' = Rooted(g.res, board, d, TRUE))
  /\ UNCHANGED <<impl, current_player, turn, cfgVars, outcome, res_ab,
                 mctsVars, o_minimax, pre>>

\* get_best_ab(d) asked of a finished game
ApiGetBestAb ==
  /\ pc = "api"
  /\ impl = "main"
  /\ is_terminal(board)
  /\ \E d \in SearchDepths :
     \E g \in {get_best_ab(board, current_player, d)} :
        Returned(g, res_ab' = Rooted(g.res, board, d, TRUE))
  /\ UNCHANGED <<impl, current_player, turn, cfgVars, outcome, res,
                 mctsVars, o_minimax, pre>>

\* mcts(game, n) asked of a finished game
ApiMcts ==
  /\ pc = "api"
  /\ impl = "main"
  /\ is_terminal(board)
  /\ param' \in SimCounts
  /\ MctsBegin
  /\ UNCHANGED <<gameVars, algo, starter, outcome, searchVars, ret, sim,
                 sim_player, placed, o_minimax, pre>>

\* RolloutStep is left out: a finished game stays finished after
\* sim.make_move(mv), so the while loop of simulate_random_game is not entered
NextApi ==
  \/ ApiPlay \/ ApiMakeMove \/ ApiUndoMove \/ ApiSearch
  \/ ApiGetBestPlain \/ ApiGetBestAb
  \/ ApiMcts \/ RolloutStart \/ RolloutEnd \/ MctsReturn

SpecApi == InitApi /\ [][NextApi]_vars

(***************************************************************************)
(* Claims.                                                                 *)
(***************************************************************************)

\* C1: on every board reached by alternating legal play (X first or O first)
\* and every depth limit, the root call of _minimax_ab with the window
\* (-inf, +inf) returns the same value and the same move as _minimax; and
\* with the limit equal to the number of empty cells neither search is cut
\* off by the limit, so that the larger limits, up to 9, give the same.
C1_AbEqualsPlain ==
  pc = "searched" =>
     /\ res_ab.val = res.val
     /\ res_ab.mv = res.mv
     /\ res.depth = Len(available_moves(res.entry))
           => (~ res.cut /\ ~ res_ab.cut)

\* an exhaustive search of a board with MaxEmpty empty cells in which the
\* alpha-beta search made fewer calls: some loop was left by the break
C1_Witness ==
  /\ pc = "searched"
  /\ Len(available_moves(res.entry)) = MaxEmpty
  /\ res.depth = MaxEmpty
  /\ ~ res.cut
  /\ res.mv # -1
  /\ res_ab.nodes < res.nodes
  /\ res_ab.val = res.val
  /\ res_ab.mv = res.mv

\* the board [X,X,_, O,O,_, _,_,_]
C2Board == [i \in Cells |-> IF i \in {0, 1} THEN "X"
                            ELSE IF i \in {3, 4} THEN "O" ELSE " "]

\* C2: on [X,X,_, O,O,_, _,_,_] with X to move, _minimax with any depth
\* limit >= 1 returns move 2 with value +1.
C2_TakesTheWin ==
  (pc = "searched" /\ res.entry = C2Board /\ res.maximizing /\ res.depth >= 1)
     => (res.mv = 2 /\ res.val = 1)

\* the search of that board with depth limit 1 has returned move 5 with
\* value 2, the heuristic of the board after X takes cell 5
C2_Witness ==
  /\ pc = "searched"
  /\ res.entry = C2Board
  /\ res.maximizing
  /\ res.depth = 1
  /\ res.mv = 5
  /\ res.val = 2

\* both sides of the trial play _minimax with a depth limit >= 9, X first
SelfPlay ==
  algo = "plain" /\ starter = "X" /\ param >= FullDepth /\ o_minimax

\* what is left of a trial: four times the empty cells plus the position in
\* the loop body of run_experiment
StepsLeft(b, p) ==
  4 * Len(available_moves(b))
    + (CASE p = "start" -> 3 [] p = "o_turn" -> 3 [] p = "loop" -> 2
         [] p = "got_move" -> 1 [] OTHER -> 0)

\* C3: from the empty board, X moving by _minimax(d, True) and O by
\* _minimax(d, False) with d >= 9, the game reaches a terminal state and
\* that state is a draw: no search fails to produce a move or is cut off by
\* its depth limit, every step of the game lowers what is left of it, and
\* the game that has ended is a draw with utility 0.
C3_SelfPlayEndsInDraw ==
  /\ [](SelfPlay => /\ pc \in {"start", "loop", "got_move", "o_turn", "done"}
                    /\ ~ res.cut
                    /\ pc = "got_move" => board[ret] = " "
                    /\ pc = "done" => /\ outcome = "draw"
                                     /\ is_draw(board)
                                     /\ utility(board) = 0)
  /\ [][SelfPlay' => StepsLeft(board', pc') < StepsLeft(board, pc)]_vars

C3_Witness == pc = "done" /\ SelfPlay /\ outcome = "draw"

\* C4: in a rollout the symbols successive make_move calls place alternate.
C4_RolloutAlternates ==
  \A k \in 1 .. Len(placed) - 1 : placed[k] # placed[k + 1]

\* a rollout of main.py whose first two make_move calls both placed 'X'
C4_Witness ==
  /\ pc = "rollout"
  /\ Len(placed) >= 2
  /\ placed[1] = "X"
  /\ placed[2] = "X"

\* make_move was just called on a cell that was occupied
ProbedOccupied ==
  /\ pc \in {"made", "raised"}
  /\ pre.move # -1
  /\ pre.board[pre.move] # " "

\* C5: make_move on an occupied cell fails with an error and leaves the
\* board and current_player as they were.
C5_OccupiedCellRejected ==
  ProbedOccupied =>
     (pc = "raised" /\ board = pre.board
      /\ current_player = pre.current_player)

\* make_move(m, 'O') on a cell holding 'X' returned and the cell holds 'O'
C5_Witness ==
  /\ pc = "made"
  /\ impl = "main"
  /\ pre.move # -1
  /\ pre.board[pre.move] = "X"
  /\ board[pre.move] = "O"
  /\ current_player = pre.current_player

\* C6: get_best_plain, get_best_ab and mcts asked for a move on a terminal
\* board signal an error and return no move.
C6_NoMoveWhenOver == ~ (pc = "got_move" /\ is_terminal(board))

\* a move was returned for a game X has already won: a free cell of it
C6_Witness ==
  /\ pc = "got_move"
  /\ is_winner(board, "X")
  /\ ret \in Cells
  /\ board[ret] = " "

\* C7: the game board of a trial, every board a search was entered with and
\* every board of a rollout is in exactly one of X-wins, O-wins, draw and
\* in-progress; X and O never both have a line.
C7_ExactlyOneClass ==
  /\ ExactlyOne(board)
  /\ ExactlyOne(sim)
  /\ res.visited_ok
  /\ res_ab.visited_ok
  /\ ~ (is_winner(board, "X") /\ is_winner(board, "O"))
  /\ ~ (is_winner(sim, "X") /\ is_winner(sim, "O"))

\* a trial that O won after at least one search of X
C7_Witness ==
  /\ pc = "done"
  /\ is_winner(board, "O")
  /\ res.nodes > 1
  /\ res.visited_ok

\* C8: make_move on a free cell followed by undo_move of the same cell
\* leaves the board and current_player as they were before make_move.
C8_RoundTrip ==
  (pc = "undone" /\ pre.board[pre.move] = " ")
     => (board = pre.board /\ current_player = pre.current_player)

C8_Witness ==
  /\ pc = "undone"
  /\ pre.board[pre.move] = " "
  /\ pre.board # EmptyBoard
  /\ impl = "mc"
  /\ board = pre.board

\* C9: every call of _minimax and _minimax_ab, at every level of the
\* recursion, returns with the board it was entered with; get_best_plain
\* and get_best_ab leave the game as it was.
C9_SearchRestores ==
  /\ res.restored /\ res.board = res.entry
  /\ res_ab.restored /\ res_ab.board = res_ab.entry
  /\ (pc = "got_move" /\ algo = "plain") => board = res.entry
  /\ (pc = "got_move" /\ algo = "ab") => board = res_ab.entry
  /\ current_player = "X"

\* an exhaustive alpha-beta search of the empty board has returned
C9_Witness ==
  /\ pc = "got_move"
  /\ algo = "ab"
  /\ res_ab.entry = EmptyBoard
  /\ res_ab.depth = FullDepth
  /\ res_ab.nodes > 1
  /\ board = EmptyBoard

\* C10: in a trial with algo 'plain' or 'ab' and depth limit >= 9, O never
\* gets a line, whoever starts and whatever O plays; no search of such a
\* trial is cut off by its depth limit.
C10_XNeverLoses ==
  (algo \in {"plain", "ab"} /\ param >= FullDepth)
     => /\ ~ is_winner(board, "O")
        /\ outcome # "loss"
        /\ ~ res.cut
        /\ ~ res_ab.cut

\* a finished trial of that kind which O started
C10_Witness ==
  /\ pc = "done"
  /\ algo \in {"plain", "ab"}
  /\ param >= FullDepth
  /\ starter = "O"
  /\ outcome \in {"win", "draw"}
====
